---- MODULE Spec2Model ----
(***************************************************************************)
(* A model of streamlit_app.py: the Seattle weather dashboard.             *)
(*                                                                         *)
(* The script is re-executed from top to bottom on every widget            *)
(* interaction.  One run loads the dataset, filters it by the selected     *)
(* weather kinds and by the chosen date interval, summarises the source    *)
(* and the filtered frame, converts both to CSV bytes through a memoized   *)
(* function and prints a human-readable size next to each download button. *)
(*                                                                         *)
(* Text is modelled as a sequence of one-character strings, so that the    *)
(* length of a CSV text is the number of its characters.  Dates are day    *)
(* numbers of January 2012 (1 is 2012-01-01); temperatures are tenths of   *)
(* a degree.  The frame keeps the three columns the script reads by name   *)
(* (date, temp_max, weather) and pandas' row index.                        *)
(***************************************************************************)
EXTENDS Integers, Sequences, FiniteSets, TLC

VARIABLES
    dataset,        \* the packaged dataset data.seattle_weather() returns
    selection,      \* widget state of the "Weather" segmented control
    startW,         \* widget state of "Start date": unset, or the value the user set
    endW,           \* widget state of "End date"
    cache,          \* st.cache_data's store for convert_for_download
    runs,           \* number of script runs after the first one
    out,            \* what the last run of the script computed
    first,          \* what the first run computed, kept to compare later runs with
    arg,            \* the argument of a function applied on its own
    result          \* and its result

vars == <<dataset, selection, startW, endW, cache, runs, out, first, arg, result>>

appVars == <<dataset, selection, startW, endW, cache, runs, out, first>>

\* The script's variables after the last run.
status == out.status                \* "ok": the run completed, "error": it raised
source == out.source                \* line 24
df == out.df                        \* line 44
start == out.start                  \* line 48
end == out.end                      \* line 56
filtered_df == out.filtered_df      \* line 70
summary == out.summary              \* lines 146 and 149
source_csv == out.source_csv        \* line 151
filtered_csv == out.filtered_csv    \* line 152
sizes == out.sizes                  \* lines 162-163, 180-181: csv_size_bytes, formatted_size
misses == out.misses                \* the frames convert_for_download computed in the run

None == "None"

\* pandas' timestamps: a day, or not-a-time (the minimum and the maximum of an
\* empty date column)
NaT == [isnat |-> TRUE, day |-> 0]

Timestamp(d) == [isnat |-> FALSE, day |-> d]

-----------------------------------------------------------------------------
(***************************************************************************)
(* Text                                                                    *)
(***************************************************************************)

DigitChars == <<"0", "1", "2", "3", "4", "5", "6", "7", "8", "9">>

RECURSIVE NatChars(_)
\* str(n) of a natural number
NatChars(n) ==
    IF n < 10 THEN <<DigitChars[n + 1]>>
    ELSE NatChars(n \div 10) \o <<DigitChars[(n % 10) + 1]>>

\* n printed with two digits, zero padded
TwoDigits(n) == <<DigitChars[(n \div 10) + 1], DigitChars[(n % 10) + 1]>>

RECURSIVE Flatten(_)
\* the concatenation of a sequence of texts
Flatten(ss) ==
    IF Len(ss) = 0 THEN <<>>
    ELSE IF Len(ss) = 1 THEN ss[1]
    ELSE LET half == Len(ss) \div 2
         IN  Flatten(SubSeq(ss, 1, half)) \o Flatten(SubSeq(ss, half + 1, Len(ss)))

RECURSIVE Join(_, _)
\* sep.join(fields)
Join(fields, sep) ==
    IF fields = <<>> THEN <<>>
    ELSE IF Len(fields) = 1 THEN Head(fields)
    ELSE Head(fields) \o sep \o Join(Tail(fields), sep)

RECURSIVE Split(_, _)
\* text.split(sep) for a one-character separator
Split(text, sep) ==
    IF \A i \in 1..Len(text) : text[i] # sep THEN <<text>>
    ELSE LET i == CHOOSE j \in 1..Len(text) :
                      text[j] = sep /\ \A h \in 1..(j - 1) : text[h] # sep
         IN  <<SubSeq(text, 1, i - 1)>> \o Split(SubSeq(text, i + 1, Len(text)), sep)

-----------------------------------------------------------------------------
(***************************************************************************)
(* format_size, lines 15-22.                                               *)
(*                                                                         *)
(* A byte count is a little-endian sequence of NLimbs base-1024 digits     *)
(* below 2^53, the range in which Python's int / 1024 is exact.  The loop  *)
(* variable size is the exact quotient n / 1024^unit: its digits above the *)
(* point (whole) and below it (frac, most significant first).              *)
(***************************************************************************)

Base == 1024

NLimbs == 6

units == <<<<"B">>, <<"K", "B">>, <<"M", "B">>, <<"G", "B">>, <<"T", "B">>>>

RECURSIVE ToLimbs(_, _)
\* the k base-1024 digits of a natural number, least significant first
ToLimbs(n, k) == IF k = 0 THEN <<>> ELSE <<n % Base>> \o ToLimbs(n \div Base, k - 1)

RECURSIVE LimbsValue(_)
\* the integer a little-endian digit sequence denotes (small values only)
LimbsValue(ls) == IF ls = <<>> THEN 0 ELSE Head(ls) + Base * LimbsValue(Tail(ls))

IsZero(ls) == \A i \in 1..Len(ls) : ls[i] = 0

\* size >= 1024: the comparison a promotion at exactly 1024 would use
AtLeastBase(whole, frac) ==
    \/ \E i \in 3..Len(whole) : whole[i] # 0
    \/ Len(whole) >= 2 /\ whole[2] >= 1

\* size > 1024 (line 19) for size = whole.frac
GreaterThanBase(whole, frac) ==
    \/ \E i \in 3..Len(whole) : whole[i] # 0
    \/ Len(whole) >= 2 /\ whole[2] > 1
    \/ Len(whole) >= 2 /\ whole[2] = 1 /\ (whole[1] > 0 \/ ~IsZero(frac))

RECURSIVE SizeLoop(_, _, _)
\* the while loop of lines 19-21
SizeLoop(whole, frac, unit) ==
    IF GreaterThanBase(whole, frac) /\ unit < Len(units) - 1
    THEN SizeLoop(Tail(whole), <<Head(whole)>> \o frac, unit + 1)
    ELSE [whole |-> whole, frac |-> frac, unit |-> unit]

RECURSIVE MulFrac(_, _)
\* m * 0.frac (frac most significant digit first): the integer part of the product
\* and the digits of its fraction
MulFrac(frac, m) ==
    IF frac = <<>> THEN [carry |-> 0, rest |-> <<>>]
    ELSE LET lower == MulFrac(Tail(frac), m)
             v == Head(frac) * m + lower.carry
         IN  [carry |-> v \div Base, rest |-> <<v % Base>> \o lower.rest]

\* the value rounded to hundredths as f"{size:.2f}" rounds it: to the nearest,
\* a tie to the even hundredth
Hundredths(whole, frac) ==
    LET p == MulFrac(frac, 100)
        floorH == LimbsValue(whole) * 100 + p.carry
        half == p.rest # <<>> /\ p.rest[1] = Base \div 2 /\ IsZero(Tail(p.rest))
        above == p.rest # <<>> /\ p.rest[1] >= Base \div 2 /\ ~half
    IN  IF above \/ (half /\ floorH % 2 = 1) THEN floorH + 1 ELSE floorH

format_size(n) ==
    LET r == SizeLoop(n, <<>>, 0)
        h == Hundredths(r.whole, r.frac)
    IN  NatChars(h \div 100) \o <<".">> \o TwoDigits(h % 100) \o <<" ">>
            \o units[r.unit + 1]

-----------------------------------------------------------------------------
(***************************************************************************)
(* The dataset and pandas' frames.                                         *)
(*                                                                         *)
(* A frame is its column names and its rows; a row carries its index label *)
(* (idx), which boolean indexing keeps.  data.seattle_weather() is one row *)
(* per day in chronological order under a RangeIndex.                      *)
(***************************************************************************)

\* line 38 (and the scale's domain, line 27)
options == <<"sun", "fog", "drizzle", "rain", "snow">>

Range(f) == {f[i] : i \in DOMAIN f}

Columns == <<"date", "temp_max", "weather">>

\* number of rows of the dataset the application runs on
NRows == 2

\* number of rows of the tables the filter is applied to on its own
NFilterRows == 3

\* the observations the datasets are drawn from: a weather kind and a maximum
\* temperature in tenths of a degree
Observations ==
    {[weather |-> "sun", temp_max |-> 128], [weather |-> "rain", temp_max |-> 106]}

\* the datasets of n rows: one row per day from 2012-01-01 on, under a RangeIndex
DatasetsOf(n) ==
    {[columns |-> Columns,
      rows |-> [i \in 1..n |->
                   [idx |-> i - 1, date |-> i, temp_max |-> o[i].temp_max,
                    weather |-> o[i].weather]]] :
        o \in [1..n -> Observations]}

Datasets == DatasetsOf(NRows)

\* line 24
seattle_weather(ds) == ds

\* frame[column] as a sequence of values
Column(frame, c) == [i \in 1..Len(frame.rows) |-> frame.rows[i][c]]

\* Series.isin(values): a boolean mask
isin(series, values) == [i \in 1..Len(series) |-> series[i] \in values]

\* Series.between(left, right) with an exclusive right end
betweenExclusive(series, left, right) ==
    [i \in 1..Len(series) |-> left <= series[i] /\ series[i] < right]

\* Series.between over the two bounds put in order first
betweenSorted(series, left, right) ==
    [i \in 1..Len(series) |->
        \/ left <= series[i] /\ series[i] <= right
        \/ right <= series[i] /\ series[i] <= left]

\* Series.between(left, right), inclusive="both" by default
between(series, left, right) ==
    [i \in 1..Len(series) |-> left <= series[i] /\ series[i] <= right]

RECURSIVE SelectRows(_, _)
SelectRows(rows, mask) ==
    IF rows = <<>> THEN <<>>
    ELSE (IF Head(mask) THEN <<Head(rows)>> ELSE <<>>)
             \o SelectRows(Tail(rows), Tail(mask))

RECURSIVE Reversed(_)
Reversed(s) == IF s = <<>> THEN <<>> ELSE Reversed(Tail(s)) \o <<Head(s)>>

\* boolean indexing that returns the selected rows last to first
BoolIndexReversed(frame, mask) ==
    [frame EXCEPT !.rows = Reversed(SelectRows(frame.rows, mask))]

\* frame[mask]: the rows whose mask entry is True, in the frame's order
BoolIndex(frame, mask) == [frame EXCEPT !.rows = SelectRows(frame.rows, mask)]

\* Timestamp.date(): NaT.date() is NaT
date(ts) == ts

\* Series.min() and Series.max() of a date column
SeriesMin(series) ==
    IF Len(series) = 0 THEN NaT
    ELSE Timestamp(CHOOSE d \in Range(series) : \A e \in Range(series) : d <= e)

SeriesMax(series) ==
    IF Len(series) = 0 THEN NaT
    ELSE Timestamp(CHOOSE d \in Range(series) : \A e \in Range(series) : d >= e)

RECURSIVE Sum(_)
Sum(series) == IF series = <<>> THEN 0 ELSE Head(series) + Sum(Tail(series))

NaN == "NaN"

\* DataFrame.describe() of the temp_max column: count, mean (as sum / count), min, max
describe(frame) ==
    LET col == Column(frame, "temp_max")
        n == Len(col)
    IN  [count |-> n,
         mean |-> IF n = 0 THEN NaN ELSE <<Sum(col), n>>,
         min |-> IF n = 0 THEN NaN
                 ELSE CHOOSE v \in Range(col) : \A u \in Range(col) : v <= u,
         max |-> IF n = 0 THEN NaN
                 ELSE CHOOSE v \in Range(col) : \A u \in Range(col) : v >= u]

-----------------------------------------------------------------------------
(***************************************************************************)
(* DataFrame.to_csv and str.encode.                                        *)
(***************************************************************************)

ColumnChars ==
    [date |-> <<"d", "a", "t", "e">>,
     temp_max |-> <<"t", "e", "m", "p", "_", "m", "a", "x">>,
     weather |-> <<"w", "e", "a", "t", "h", "e", "r">>]

WeatherChars ==
    [sun |-> <<"s", "u", "n">>,
     fog |-> <<"f", "o", "g">>,
     drizzle |-> <<"d", "r", "i", "z", "z", "l", "e">>,
     rain |-> <<"r", "a", "i", "n">>,
     snow |-> <<"s", "n", "o", "w">>]

\* a date as to_csv writes it: 2012-01-dd
DateChars(d) == <<"2", "0", "1", "2", "-", "0", "1", "-">> \o TwoDigits(d)

\* a float as to_csv writes it: tenths t as "12.8"
FloatChars(t) == NatChars(t \div 10) \o <<".">> \o <<DigitChars[(t % 10) + 1]>>

FieldChars(row, c) ==
    CASE c = "date" -> DateChars(row.date)
      [] c = "temp_max" -> FloatChars(row.temp_max)
      [] c = "weather" -> WeatherChars[row.weather]

\* DataFrame.to_csv(index=...): the header line, then one line per row; with the
\* index, every line starts with the index field (its header is empty)
to_csv(frame, index) ==
    LET header == (IF index THEN <<<<>>>> ELSE <<>>)
                      \o [j \in 1..Len(frame.columns) |-> ColumnChars[frame.columns[j]]]
        line(row) == (IF index THEN <<NatChars(row.idx)>> ELSE <<>>)
                         \o [j \in 1..Len(frame.columns) |-> FieldChars(row, frame.columns[j])]
    IN  Join(header, <<",">>) \o <<"\n">>
            \o Flatten([i \in 1..Len(frame.rows) |->
                           Join(line(frame.rows[i]), <<",">>) \o <<"\n">>])

\* str.encode("utf-8"): every character to_csv writes here is ASCII, one byte each
Utf8(ch) == <<ch>>

encode(text) == Flatten([i \in 1..Len(text) |-> Utf8(text[i])])

\* the body of convert_for_download, line 13: to_csv() writes the index
convert(frame) == encode(to_csv(frame, TRUE))

\* io.StringIO: write from position 0, then tell() is the number of characters written
StringIO_tell(text) == Len(text)

-----------------------------------------------------------------------------
(***************************************************************************)
(* Streamlit: the widgets and st.cache_data.                               *)
(*                                                                         *)
(* A widget without a key is identified by its label and parameters: the   *)
(* two date inputs by (value, min_value, max_value).  A value the user set *)
(* is kept for that identity only; a run that completes drops the state of *)
(* every widget it did not render.                                         *)
(***************************************************************************)

\* date.strftime of NaT raises while date_input serialises value, min_value, max_value
DateInputRaises(value, min_value, max_value) ==
    value.isnat \/ min_value.isnat \/ max_value.isnat

WidgetId(value, min_value, max_value) == <<value, min_value, max_value>>

\* the state of a date input the user has not touched
Unset == [set |-> FALSE, id |-> <<0, 0, 0>>, val |-> 0]

\* the state of a date input after the user picked d
UserSet(id, d) == [set |-> TRUE, id |-> id, val |-> d]

\* a date input that returns the value the user set whatever the widget's identity
date_inputSticky(value, min_value, max_value, state) ==
    IF state.set THEN state.val ELSE value

\* st.date_input(label, value, min_value, max_value): the value the user set for
\* this widget, the default otherwise
date_input(value, min_value, max_value, state) ==
    IF state.set /\ state.id = WidgetId(value, min_value, max_value)
    THEN state.val
    ELSE value

\* the widget's state after a run that rendered it
Rendered(value, min_value, max_value, state) ==
    IF state.set /\ state.id = WidgetId(value, min_value, max_value)
    THEN state
    ELSE Unset

\* pd.to_datetime of a date: the timestamp of its midnight, which is how the
\* date column holds its days
to_datetime(d) == d

\* a cache key that only looks at the frame's shape
CacheKeyShape(frame) == <<Len(frame.rows), Len(frame.columns)>>

\* st.cache_data hashes the argument: the frame's columns, index and values
CacheKey(frame) == frame

EmptyCache == [k \in {} |-> <<>>]

\* lines 11-13: the memoized convert_for_download.  The store is never evicted.
convert_for_download(store, frame) ==
    LET k == CacheKey(frame)
    IN  IF k \in DOMAIN store
        THEN [value |-> store[k], store |-> store, computed |-> <<>>]
        ELSE LET v == convert(frame)
             IN  [value |-> v, store |-> (k :> v) @@ store, computed |-> <<frame>>]

-----------------------------------------------------------------------------
(***************************************************************************)
(* One run of the script, lines 24-191.                                    *)
(***************************************************************************)

\* lines 160-162 and 178-180: the CSV without the index written to a fresh StringIO
csv_size_bytes(frame) == StringIO_tell(to_csv(frame, FALSE))

\* lines 160-164 and 178-182
SizeSection(frame) ==
    LET n == csv_size_bytes(frame)
    IN  [bytes |-> n, text |-> format_size(ToLimbs(n, NLimbs))]

\* a summary section that describes the filtered frame in both columns
SummarySectionSwapped(src, filtered) ==
    [src |-> describe(filtered), flt |-> describe(filtered)]

\* lines 143-149
SummarySection(src, filtered) ==
    [src |-> describe(src), flt |-> describe(filtered)]

\* a category filter that returns the newest row first
CategoryFilterNewestFirst(src, sel) ==
    BoolIndexReversed(src, isin(Column(src, "weather"), sel))

\* line 44
CategoryFilter(src, sel) == BoolIndex(src, isin(Column(src, "weather"), sel))

\* lines 69-70
DateFilter(d, date_range) ==
    LET start_date == to_datetime(date_range[1])
        end_date == to_datetime(date_range[2])
    IN  BoolIndex(d, between(Column(d, "date"), start_date, end_date))

\* lines 44 and 69-70 together: the category filter, then the date filter
Filter(table, categories, s, e) ==
    DateFilter(CategoryFilter(table, categories), <<s, e>>)

\* The run's results.  keep: whether a run that raises keeps the date widgets' state.
Script(ds, sel, sW, eW, store, keep) ==
    LET src == seattle_weather(ds)                                   \* line 24
        d == CategoryFilter(src, sel)                                \* line 44
        lo == date(SeriesMin(Column(d, "date")))                     \* lines 50-51
        hi == date(SeriesMax(Column(d, "date")))                     \* lines 52, 58
    IN  IF DateInputRaises(lo, lo, hi)                               \* line 48
        THEN [startW |-> IF keep THEN sW ELSE Unset,
              endW |-> IF keep THEN eW ELSE Unset,
              cache |-> store,
              out |-> [status |-> "error", source |-> src, df |-> d,
                       start |-> None, end |-> None, filtered_df |-> None,
                       summary |-> None, source_csv |-> None, filtered_csv |-> None,
                       sizes |-> None, misses |-> <<>>]]
        ELSE LET s == date_input(lo.day, lo.day, hi.day, sW)         \* lines 48-53
                 e == date_input(hi.day, lo.day, hi.day, eW)         \* lines 56-61
                 date_range == <<s, e>>                              \* lines 63-67
                 f == DateFilter(d, date_range)                      \* lines 69-70
                 c1 == convert_for_download(store, src)              \* line 151
                 c2 == convert_for_download(c1.store, f)             \* line 152
             IN  [startW |-> Rendered(lo.day, lo.day, hi.day, sW),
                  endW |-> Rendered(hi.day, lo.day, hi.day, eW),
                  cache |-> c2.store,
                  out |-> [status |-> "ok", source |-> src, df |-> d,
                           start |-> s, end |-> e, filtered_df |-> f,
                           summary |-> SummarySection(src, f),
                           source_csv |-> c1.value, filtered_csv |-> c2.value,
                           sizes |-> [src |-> SizeSection(src), flt |-> SizeSection(f)],
                           misses |-> c1.computed \o c2.computed]]

\* the state after a run with the given widget state
Run(sel, sW, eW, keep) ==
    \E r \in {Script(dataset, sel, sW, eW, cache, keep)} :
        /\ selection' = sel
        /\ startW' = r.startW
        /\ endW' = r.endW
        /\ cache' = r.cache
        /\ out' = r.out
        /\ runs' = runs + 1
        /\ UNCHANGED <<dataset, first, arg, result>>

\* number of script runs after the first
MaxRuns == 4

\* the first run: every option selected (line 40), no widget touched, an empty cache
FirstRun(ds) ==
    \E r \in {Script(ds, Range(options), Unset, Unset, EmptyCache, FALSE)} :
        /\ dataset = ds
        /\ selection = Range(options)
        /\ startW = r.startW
        /\ endW = r.endW
        /\ cache = r.cache
        /\ out = r.out
        /\ first = r.out
        /\ runs = 0

Init ==
    /\ \E ds \in Datasets : FirstRun(ds)
    /\ arg = <<>>
    /\ result = <<>>

\* a click on one segment of the "Weather" control (lines 39-41) and the run it starts
Toggle(o) ==
    \E keep \in BOOLEAN :
        Run(IF o \in selection THEN selection \ {o} ELSE selection \cup {o},
            startW, endW, keep)

\* the user clicks one segment of the "Weather" control
ToggleOption(o) ==
    /\ runs < MaxRuns
    /\ Toggle(o)

\* min_value and max_value of the rendered date inputs (lines 51-52, 59-60)
MinValue == date(SeriesMin(Column(df, "date"))).day

MaxValue == date(SeriesMax(Column(df, "date"))).day

\* the dates the rendered date inputs offer
Offered == MinValue..MaxValue

\* the user picks another start date (lines 48-53)
ChooseStart(d) ==
    /\ runs < MaxRuns
    /\ status = "ok"
    /\ d \in Offered
    /\ d # start
    /\ Run(selection, UserSet(WidgetId(MinValue, MinValue, MaxValue), d), endW, FALSE)

\* the user picks another end date (lines 56-61)
ChooseEnd(d) ==
    /\ runs < MaxRuns
    /\ status = "ok"
    /\ d \in Offered
    /\ d # end
    /\ Run(selection, startW, UserSet(WidgetId(MaxValue, MinValue, MaxValue), d), FALSE)

\* a run with no widget changed: a click on a download button (lines 167, 185)
Rerun ==
    /\ runs < MaxRuns
    /\ status = "ok"
    /\ Run(selection, startW, endW, FALSE)

Next ==
    \/ \E o \in Range(options) : ToggleOption(o)
    \/ \E d \in 1..NRows : ChooseStart(d)
    \/ \E d \in 1..NRows : ChooseEnd(d)
    \/ Rerun

Spec == Init /\ [][Next]_vars

-----------------------------------------------------------------------------
(***************************************************************************)
(* The category selection on its own: the user only clicks segments of the *)
(* "Weather" control, often enough to deselect every option.               *)
(***************************************************************************)

\* number of clicks on the "Weather" control
MaxToggles == 5

SelectOption(o) ==
    /\ runs < MaxToggles
    /\ Toggle(o)

NextSelect == \E o \in Range(options) : SelectOption(o)

SpecSelect == Init /\ [][NextSelect]_vars

-----------------------------------------------------------------------------
(***************************************************************************)
(* format_size on its own: every byte count below 2^53 whose base-1024     *)
(* digits are drawn from LimbValues.                                       *)
(***************************************************************************)

LimbValues == {0, 1, 2, 128, 384, 1023}

\* below 2^53 = 8 * 1024^5
InExactRange(ls) ==
    \A i \in 1..Len(ls) : (i = 6 => ls[i] < 8) /\ (i > 6 => ls[i] = 0)

SizeInputs == {ls \in [1..NLimbs -> LimbValues] : InExactRange(ls)}

\* the application's variables while a function is applied on its own
Idle == FirstRun(CHOOSE ds \in Datasets : TRUE)

InitFmt ==
    /\ Idle
    /\ \E n \in SizeInputs : arg = [size_in_bytes |-> n]
    /\ result = <<>>

FormatSize ==
    /\ result = <<>>
    /\ result' = format_size(arg.size_in_bytes)
    /\ UNCHANGED <<arg, appVars>>

NextFmt == FormatSize

SpecFmt == InitFmt /\ [][NextFmt]_vars

-----------------------------------------------------------------------------
(***************************************************************************)
(* The filter on its own: every dataset, every set of options and every    *)
(* pair of dates from the day before the first row to the day after the    *)
(* last.                                                                   *)
(***************************************************************************)

FilterInputs ==
    [table : DatasetsOf(NFilterRows), categories : SUBSET Range(options),
     start : 0..(NFilterRows + 1), end : 0..(NFilterRows + 1)]

InitFilter ==
    /\ Idle
    /\ arg \in FilterInputs
    /\ result = <<>>

ApplyFilter ==
    /\ result = <<>>
    /\ result' = <<Filter(arg.table, arg.categories, arg.start, arg.end)>>
    /\ UNCHANGED <<arg, appVars>>

NextFilter == ApplyFilter

SpecFilter == InitFilter /\ [][NextFilter]_vars

-----------------------------------------------------------------------------
(***************************************************************************)
(* The claims.                                                             *)
(***************************************************************************)

\* the place of a row of the filtered frame in the table it was taken from
Position(table, row) == CHOOSE i \in 1..Len(table.rows) : table.rows[i] = row

\* C1: the filtered table holds a row of the table if and only if the row's category
\* is among the accepted categories and start <= its date <= end, both ends
\* included; it holds nothing else.
C1_InclusionCorrect ==
    result # <<>> =>
        LET T == arg.table
            F == result[1]
            Accepted(r) == r.weather \in arg.categories
                               /\ arg.start <= r.date /\ r.date <= arg.end
        IN  /\ \A i \in 1..Len(T.rows) : (T.rows[i] \in Range(F.rows)) <=> Accepted(T.rows[i])
            /\ \A j \in 1..Len(F.rows) : F.rows[j] \in Range(T.rows)

\* the row on the last day of the interval is kept while a row of an accepted
\* category is dropped for its date and a row in the interval for its category
C1_Witness ==
    /\ result # <<>>
    /\ \E r \in Range(result[1].rows) : r.date = arg.end
    /\ \E r \in Range(arg.table.rows) : r.weather \in arg.categories /\ r.date > arg.end
    /\ \E r \in Range(arg.table.rows) :
           r.weather \notin arg.categories /\ arg.start <= r.date /\ r.date <= arg.end

\* C6: the filtered table has the table's columns, consists of rows of the table and
\* keeps them in the table's order, none twice.
C6_SubsetOrderPreserved ==
    result # <<>> =>
        LET T == arg.table
            F == result[1]
        IN  /\ F.columns = T.columns
            /\ \A j \in 1..Len(F.rows) : F.rows[j] \in Range(T.rows)
            /\ \A j, k \in 1..Len(F.rows) :
                   j < k => Position(T, F.rows[j]) < Position(T, F.rows[k])

\* two rows are kept and one between or before them is dropped
C6_Witness ==
    /\ result # <<>>
    /\ Len(result[1].rows) >= 2
    /\ Len(result[1].rows) < Len(arg.table.rows)

\* the lines of a CSV text, without the empty text after the last line terminator
Lines(text) ==
    LET parts == Split(text, "\n") IN SubSeq(parts, 1, Len(parts) - 1)

\* C2: the byte count handed to format_size is the length of the bytes offered for
\* download, for the source table and for the filtered table.
C2_SizeConsistent ==
    status = "ok" =>
        /\ sizes.src.bytes = Len(source_csv)
        /\ sizes.flt.bytes = Len(filtered_csv)

\* the text is one header line of the frame's column names and one line per row,
\* each with one field per column
CsvOfSchema(text, frame) ==
    LET ls == Lines(text)
    IN  /\ Len(ls) = Len(frame.rows) + 1
        /\ text[Len(text)] = "\n"
        /\ Split(ls[1], ",") = [j \in 1..Len(frame.columns) |-> ColumnChars[frame.columns[j]]]
        /\ \A i \in 2..Len(ls) : Len(Split(ls[i], ",")) = Len(frame.columns)

\* C7: the bytes offered for download are a CSV of one header row with the table's
\* column names and one row per record with one field per column.
C7_ExportSchema ==
    status = "ok" =>
        /\ CsvOfSchema(source_csv, source)
        /\ CsvOfSchema(filtered_csv, filtered_df)

\* C4: with no category accepted and a table that has rows, the run completes, the
\* filtered table is empty, its CSV is the header row alone and its summary counts 0.
C4_EmptySelectionHandled ==
    (selection = {} /\ Len(source.rows) > 0) =>
        /\ status = "ok"
        /\ filtered_df.rows = <<>>
        /\ Len(Lines(filtered_csv)) = 1
        /\ summary.flt.count = 0

\* C5 as claimed: in every run the interval has start <= end, and both dates lie
\* within the table's minimum and maximum date.
C5_CriteriaInvariant ==
    status = "ok" =>
        LET lo == SeriesMin(Column(source, "date")).day
            hi == SeriesMax(Column(source, "date")).day
        IN  /\ start <= end
            /\ lo <= start /\ start <= hi
            /\ lo <= end /\ end <= hi

\* C5 as amended: both dates lie within the minimum and maximum date of the frame
\* the selected categories leave, and so of the table; start <= end holds as long
\* as the user has set neither date.
C5_DatesWithinBounds ==
    status = "ok" =>
        LET lo == SeriesMin(Column(source, "date")).day
            hi == SeriesMax(Column(source, "date")).day
        IN  /\ lo <= MinValue /\ MaxValue <= hi
            /\ MinValue <= start /\ start <= MaxValue
            /\ MinValue <= end /\ end <= MaxValue
            /\ (~startW.set /\ ~endW.set) => start <= end

\* a date the user chose is kept over a run in which the selection changed
C5_Witness ==
    /\ status = "ok"
    /\ startW.set
    /\ start > MinValue
    /\ selection # Range(options)

\* C8: a start date later than the end date leaves the filtered table empty, and the
\* run in which the user inverts the interval completes.
C8_InvertedIntervalEmpty ==
    /\ [](status = "ok" /\ start > end => filtered_df.rows = <<>>)
    /\ [][(/\ status = "ok"
           /\ selection' = selection
           /\ <<startW', endW'>> # <<startW, endW>>
           /\ startW'.set /\ endW'.set /\ startW'.val > endW'.val)
          => (status' = "ok" /\ start' > end' /\ filtered_df'.rows = <<>>)]_vars

C8_Witness ==
    /\ status = "ok"
    /\ start > end
    /\ Len(df.rows) > 0

\* C9: the bytes the memoized convert_for_download returns are those an unmemoized
\* call on the same frame returns, and a run with unchanged inputs returns the same
\* bytes without computing any.
C9_CacheTransparent ==
    /\ [](status = "ok" =>
              /\ source_csv = convert(source)
              /\ filtered_csv = convert(filtered_df))
    /\ [][(/\ status = "ok"
           /\ runs' = runs + 1
           /\ <<selection', startW', endW'>> = <<selection, startW, endW>>)
          => (/\ status' = "ok"
              /\ misses' = <<>>
              /\ filtered_csv' = filtered_csv
              /\ source_csv' = source_csv)]_vars

\* a later run is served the bytes of a filtered frame from the cache
C9_Witness ==
    /\ status = "ok"
    /\ runs > 0
    /\ misses = <<>>
    /\ Len(filtered_df.rows) < Len(source.rows)
    /\ Len(filtered_df.rows) > 0

\* C10: after every run the source table is the one the first run loaded, and the
\* summary, the bytes and the size of the source table are those of the first run.
C10_SourceIsFrame ==
    /\ source = first.source
    /\ status = "ok" =>
           /\ summary.src = first.summary.src
           /\ source_csv = first.source_csv
           /\ sizes.src = first.sizes.src

\* a run that filtered rows out and computed the filtered frame's summary and bytes
C10_Witness ==
    /\ status = "ok"
    /\ runs > 0
    /\ Len(filtered_df.rows) > 0
    /\ Len(filtered_df.rows) < Len(source.rows)
    /\ misses = <<filtered_df>>
    /\ summary.flt # summary.src

-----------------------------------------------------------------------------
(***************************************************************************)
(* The claim about format_size.                                            *)
(***************************************************************************)

\* n > 1024^j for the byte count with digits ls
ExceedsPower(ls, j) ==
    \/ \E i \in (j + 2)..Len(ls) : ls[i] # 0
    \/ ls[j + 1] > 1
    \/ ls[j + 1] = 1 /\ \E i \in 1..j : ls[i] # 0

\* how often n can be divided by 1024 while the value is above 1024, at most to the
\* last unit
LadderIndex(ls) == Cardinality({j \in 1..(Len(units) - 1) : ExceedsPower(ls, j)})

RECURSIVE MulLimbs(_, _, _)
\* the digits of m * n + carry, least significant first
MulLimbs(ls, m, carry) ==
    IF ls = <<>> THEN <<carry>>
    ELSE LET v == Head(ls) * m + carry
         IN  <<v % Base>> \o MulLimbs(Tail(ls), m, v \div Base)

CharDigit(c) == CHOOSE d \in 0..9 : DigitChars[d + 1] = c

RECURSIVE CharsNat(_)
CharsNat(cs) ==
    IF cs = <<>> THEN 0 ELSE CharsNat(SubSeq(cs, 1, Len(cs) - 1)) * 10 + CharDigit(cs[Len(cs)])

\* text is "<digits>.<two digits> <unit>" and its number is n / 1024^k rounded to
\* hundredths: within half a hundredth of it
PrintsScaled(text, ls, k) ==
    LET parts == Split(text, " ")
        number == Split(parts[1], ".")
        twice == LimbsValue(SubSeq(MulLimbs(ls, 200, 0), k + 1, Len(ls) + 1))
        exact == IsZero(SubSeq(MulLimbs(ls, 200, 0), 1, k))
    IN  /\ Len(parts) = 2 /\ parts[2] = units[k + 1]
        /\ Len(number) = 2 /\ Len(number[1]) >= 1 /\ Len(number[2]) = 2
        /\ \A c \in Range(number[1]) \cup Range(number[2]) : c \in Range(DigitChars)
        /\ Len(number[1]) > 1 => number[1][1] # "0"
        /\ LET h == CharsNat(number[1]) * 100 + CharsNat(number[2])
           IN  /\ 2 * h - 1 <= twice
               /\ twice < 2 * h + 1 \/ (twice = 2 * h + 1 /\ exact)

\* C3: format_size(n) prints n / 1024^k with two fraction digits and the k-th unit
\* of B, KB, MB, GB, TB, k being the number of divisions by 1024 that leave a value
\* above 1024, at most 4; 1024 is "1024.00 B", 1025 "1.00 KB" and 0 "0.00 B".
C3_UnitLadder ==
    result # <<>> =>
        LET n == arg.size_in_bytes
        IN  /\ PrintsScaled(result, n, LadderIndex(n))
            /\ n = ToLimbs(1024, NLimbs) =>
                   result = <<"1", "0", "2", "4", ".", "0", "0", " ", "B">>
            /\ n = ToLimbs(1025, NLimbs) => result = <<"1", ".", "0", "0", " ", "K", "B">>
            /\ n = ToLimbs(0, NLimbs) => result = <<"0", ".", "0", "0", " ", "B">>

\* 1024 bytes are printed, and not promoted to KB
C3_Witness ==
    /\ result = <<"1", "0", "2", "4", ".", "0", "0", " ", "B">>
    /\ arg.size_in_bytes = ToLimbs(1024, NLimbs)

====
